---- MODULE Spec2Model ----
(***************************************************************************)
(* Model of src/app.py: AudioMetadataGenerator, the batch run that reads    *)
(* the tags of every audio file under the input folder, asks Ollama for    *)
(* metadata, shows a comparison, asks the operator and writes the tags of  *)
(* a copy in the output folder.                                            *)
(*                                                                         *)
(* Python strings are sequences of one-character strings.  A JSON value is *)
(* a tagged record (JNull, JStr, JInt, JList); a Python dict is a function     *)
(* whose DOMAIN is the set of its keys.                                    *)
(***************************************************************************)
EXTENDS Integers, Sequences, FiniteSets, TLC

(***************************************************************************)
(* Bounds of the model.                                                    *)
(***************************************************************************)
\* the longest list of discovered files
MaxFiles == 2

\* the longest file name before the extension, for clean_filename
MaxStemLen == 5

(***************************************************************************)
(* Python values.                                                          *)
(***************************************************************************)
JNull == [k |-> "null"]
JStr(s) == [k |-> "str", s |-> s]
JInt(n) == [k |-> "int", n |-> n]
JList(l) == [k |-> "list", l |-> l]

Digits == <<"0", "1", "2", "3", "4", "5", "6", "7", "8", "9">>

DigitSet == {Digits[d] : d \in 1..10}

\* str(n) for a non-negative int
RECURSIVE IntToStr(_)
IntToStr(n) ==
    IF n < 10 THEN <<Digits[n + 1]>>
    ELSE IntToStr(n \div 10) \o <<Digits[(n % 10) + 1]>>

\* ", ".join(repr(x) for x in l), the inside of str(list)
RECURSIVE ReprItems(_)
ReprItems(l) ==
    IF l = <<>> THEN <<>>
    ELSE <<"'">> \o Head(l) \o <<"'">>
         \o (IF Len(l) > 1 THEN <<",", " ">> \o ReprItems(Tail(l)) ELSE <<>>)

\* str(v)
PyStr(v) ==
    CASE v.k = "str" -> v.s
      [] v.k = "int" -> IntToStr(v.n)
      [] v.k = "list" -> <<"[">> \o ReprItems(v.l) \o <<"]">>
      [] OTHER -> <<"N", "o", "n", "e">>

\* bool(v)
Truthy(v) ==
    CASE v.k = "str" -> v.s # <<>>
      [] v.k = "int" -> v.n # 0
      [] v.k = "list" -> v.l # <<>>
      [] OTHER -> FALSE

\* s.isdigit()
IsDigit(s) == s # <<>> /\ \A p \in 1..Len(s) : s[p] \in DigitSet

\* d.get(key)
Get(d, key) == IF key \in DOMAIN d THEN d[key] ELSE JNull

(***************************************************************************)
(* clean_filename                                                          *)
(***************************************************************************)
SepSet == {" ", "_", "-", "."}

\* os.path.splitext(filename)[0]: cut at the last dot, unless only dots
\* come before it
SplitExtRoot(p) ==
    LET dots == {q \in 1..Len(p) : p[q] = "."}
    IN  IF dots = {} THEN p
        ELSE LET dotIndex == CHOOSE q \in dots : \A r \in dots : r <= q
             IN  IF \E q \in 1..(dotIndex - 1) : p[q] # "."
                 THEN SubSeq(p, 1, dotIndex - 1)
                 ELSE p

\* the length of the longest prefix of s made of characters of set
RECURSIVE SpanLen(_, _)
SpanLen(s, set) ==
    IF s # <<>> /\ Head(s) \in set THEN 1 + SpanLen(Tail(s), set) ELSE 0

Drop(s, n) == SubSeq(s, n + 1, Len(s))

\* re.sub(r'^\d+[\s_\-\.]+', '', name)
StripNumber(name) ==
    LET d == SpanLen(name, DigitSet)
        s == SpanLen(Drop(name, d), SepSet)
    IN  IF d >= 1 /\ s >= 1 THEN Drop(name, d + s) ELSE name

\* re.sub(r'^\[.*?\][\s_\-\.]*', '', name)
StripBracket(name) ==
    LET closes == {q \in 2..Len(name) : name[q] = "]"}
    IN  IF name # <<>> /\ Head(name) = "[" /\ closes # {}
        THEN LET c == CHOOSE q \in closes : \A r \in closes : q <= r
                 rest == Drop(name, c)
             IN  Drop(rest, SpanLen(rest, SepSet))
        ELSE name

\* re.sub(r'[_\.]+', ' ', name) followed by re.sub(r'\s+', ' ', name): every
\* run of characters of set becomes one space
RECURSIVE CollapseRuns(_, _)
CollapseRuns(s, set) ==
    IF s = <<>> THEN <<>>
    ELSE IF Head(s) \in set
         THEN <<" ">> \o CollapseRuns(Drop(s, SpanLen(s, set)), set)
         ELSE <<Head(s)>> \o CollapseRuns(Tail(s), set)

\* s.strip()
RECURSIVE Strip(_)
Strip(s) ==
    IF s = <<>> THEN s
    ELSE IF Head(s) = " " THEN Strip(Tail(s))
    ELSE IF s[Len(s)] = " " THEN Strip(SubSeq(s, 1, Len(s) - 1))
    ELSE s

clean_filename(filename) ==
    LET name1 == SplitExtRoot(filename)
        name2 == StripNumber(name1)
        name3 == StripBracket(name2)
        name4 == CollapseRuns(name3, {"_", "."})
    IN  Strip(CollapseRuns(name4, {" "}))

(***************************************************************************)
(* Audio files and their tag containers.  A file is [fmt, ok, tag]: ok is  *)
(* whether the tag library can load it (eyed3.load gives an object, OggOpus*)
(* does not raise).  A text frame that is not set is the empty string.     *)
(***************************************************************************)
\* audiofile.tag is None
NoTag == [absent |-> TRUE]

\* the tag audiofile.initTag(version=(2, 3, 0)) gives
EmptyMp3Tag ==
    [title |-> <<>>, artist |-> <<>>, album |-> <<>>, recording_date |-> <<>>,
     composer |-> <<>>, genre |-> <<>>, comments |-> <<>>]

\* an OggOpus file without Vorbis comments
EmptyOpusTag ==
    [TITLE |-> <<>>, ARTIST |-> <<>>, ALBUM |-> <<>>, DATE |-> <<>>,
     COMPOSER |-> <<>>, GENRE |-> <<>>, LANGUAGE |-> <<>>]

\* no file at a path
Absent == [fmt |-> "absent"]

\* {}
EmptyDict == [x \in {} |-> JNull]

\* a local variable that is not bound yet
Unset == [unset |-> TRUE]

get_mp3_existing_metadata(file) ==
    IF file.ok /\ file.tag # NoTag
    THEN [title |-> file.tag.title,
          artist |-> file.tag.artist,
          album |-> file.tag.album,
          year |-> file.tag.recording_date,
          composer |-> file.tag.composer,
          genre |-> file.tag.genre,
          comments |-> file.tag.comments]
    ELSE EmptyDict

get_opus_existing_metadata(file) ==
    IF file.ok
    THEN [title |-> file.tag.TITLE,
          artist |-> file.tag.ARTIST,
          album |-> file.tag.ALBUM,
          year |-> file.tag.DATE,
          composer |-> file.tag.COMPOSER,
          genre |-> file.tag.GENRE,
          language |-> file.tag.LANGUAGE]
    ELSE EmptyDict

\* the field updates of update_mp3_metadata; genre_rejected is whether the
\* genre setter of the tag library raises
ApplyMp3(tag, metadata, genre_rejected) ==
    LET t1 == IF Truthy(Get(metadata, "title"))
              THEN [tag EXCEPT !.title = PyStr(metadata.title)] ELSE tag
        t2 == IF Truthy(Get(metadata, "artists"))
              THEN [t1 EXCEPT !.artist = PyStr(metadata.artists)] ELSE t1
        t3 == IF Truthy(Get(metadata, "album"))
              THEN [t2 EXCEPT !.album = PyStr(metadata.album)] ELSE t2
        t4 == IF Truthy(Get(metadata, "year")) /\ IsDigit(PyStr(metadata.year))
              THEN [t3 EXCEPT !.recording_date = PyStr(metadata.year)] ELSE t3
        t5 == IF Truthy(Get(metadata, "composer"))
              THEN [t4 EXCEPT !.composer = PyStr(metadata.composer)] ELSE t4
        t6 == IF Truthy(Get(metadata, "language"))
              THEN [t5 EXCEPT !.comments =
                       << <<"L", "a", "n", "g", "u", "a", "g", "e", ":", " ">>
                          \o PyStr(metadata.language) >>]
              ELSE t5
    IN  IF Truthy(Get(metadata, "genre"))
        THEN IF genre_rejected
             THEN [t6 EXCEPT !.comments =
                      << <<"G", "e", "n", "r", "e", ":", " ">>
                         \o PyStr(metadata.genre) >>]
             ELSE [t6 EXCEPT !.genre = PyStr(metadata.genre)]
        ELSE t6

\* the field updates of update_opus_metadata
ApplyOpus(tag, metadata) ==
    LET t1 == IF Truthy(Get(metadata, "title"))
              THEN [tag EXCEPT !.TITLE = PyStr(metadata.title)] ELSE tag
        t2 == IF Truthy(Get(metadata, "artists"))
              THEN [t1 EXCEPT !.ARTIST = PyStr(metadata.artists)] ELSE t1
        t3 == IF Truthy(Get(metadata, "album"))
              THEN [t2 EXCEPT !.ALBUM = PyStr(metadata.album)] ELSE t2
        t4 == IF Truthy(Get(metadata, "year")) /\ IsDigit(PyStr(metadata.year))
              THEN [t3 EXCEPT !.DATE = PyStr(metadata.year)] ELSE t3
        t5 == IF Truthy(Get(metadata, "composer"))
              THEN [t4 EXCEPT !.COMPOSER = PyStr(metadata.composer)] ELSE t4
        t6 == IF Truthy(Get(metadata, "language"))
              THEN [t5 EXCEPT !.LANGUAGE = PyStr(metadata.language)] ELSE t5
    IN  IF Truthy(Get(metadata, "genre"))
        THEN [t6 EXCEPT !.GENRE = PyStr(metadata.genre)] ELSE t6

\* audiofile.tag.title or audiofile.tag.artist;
\* audiofile.get("TITLE") or audiofile.get("ARTIST")
HasTitleOrArtist(file) ==
    IF file.fmt = "mp3"
    THEN file.tag # NoTag /\ (file.tag.title # <<>> \/ file.tag.artist # <<>>)
    ELSE file.tag.TITLE # <<>> \/ file.tag.ARTIST # <<>>

(***************************************************************************)
(* get_metadata_from_ollama.  reply is what the POST to /api/generate      *)
(* does: "transport" (connection refused, timeout), "status" (a status     *)
(* raise_for_status rejects), "nokey" (a body without 'response'),         *)
(* "unparseable" (no JSON object in the text), "exception" (any other      *)
(* exception), or "parsed" with the JSON object obj of the text.           *)
(***************************************************************************)
InvalidResponseFormat ==
    <<"I", "n", "v", "a", "l", "i", "d", " ", "r", "e", "s", "p", "o", "n",
      "s", "e", " ", "f", "o", "r", "m", "a", "t">>

FailedToParseResponse ==
    <<"F", "a", "i", "l", "e", "d", " ", "t", "o", " ", "p", "a", "r", "s",
      "e", " ", "r", "e", "s", "p", "o", "n", "s", "e">>

\* str(e) of the exception caught
ExceptionText(kind) ==
    CASE kind = "transport" -> <<"C", "o", "n", "n", "e", "c", "t", "i", "o", "n">>
      [] kind = "status" -> <<"5", "0", "0">>
      [] OTHER -> <<"e", "r", "r", "o", "r">>

get_metadata_from_ollama(song_name, reply) ==
    CASE reply.kind = "nokey" ->
             [title |-> JStr(song_name), error |-> JStr(InvalidResponseFormat)]
      [] reply.kind = "parsed" -> reply.obj
      [] reply.kind = "unparseable" ->
             [title |-> JStr(song_name), error |-> JStr(FailedToParseResponse)]
      [] OTHER ->
             [error |-> JStr(ExceptionText(reply.kind)), title |-> JStr(song_name)]

(***************************************************************************)
(* confirm_update.  response is the line read from the operator, lowered   *)
(* and stripped.  The result is what the call does: it returns True or     *)
(* False, exits the process or asks again; mode is interactive_mode after  *)
(* the call and asked is whether a prompt was issued.                      *)
(***************************************************************************)
\* an affirm-all that leaves interactive_mode as it is
confirm_update_all_keeps_mode(interactive, response) ==
    IF ~interactive
    THEN [out |-> "True", mode |-> interactive, asked |-> FALSE]
    ELSE CASE response \in {"y", "yes", "a", "all"} ->
                  [out |-> "True", mode |-> interactive, asked |-> TRUE]
           [] response \in {"n", "no"} ->
                  [out |-> "False", mode |-> interactive, asked |-> TRUE]
           [] response \in {"q", "quit"} ->
                  [out |-> "exit", mode |-> interactive, asked |-> TRUE]
           [] OTHER ->
                  [out |-> "again", mode |-> interactive, asked |-> TRUE]

\* the responses confirm_update recognizes
Recognized == {"y", "yes", "n", "no", "a", "all", "q", "quit"}

\* an unrecognized response taken as a decline instead of asking again
confirm_update_unrecognized_declines(interactive, response) ==
    IF ~interactive
    THEN [out |-> "True", mode |-> interactive, asked |-> FALSE]
    ELSE CASE response \in {"y", "yes"} ->
                  [out |-> "True", mode |-> interactive, asked |-> TRUE]
           [] response \in {"a", "all"} ->
                  [out |-> "True", mode |-> FALSE, asked |-> TRUE]
           [] response \in {"q", "quit"} ->
                  [out |-> "exit", mode |-> interactive, asked |-> TRUE]
           [] OTHER ->
                  [out |-> "False", mode |-> interactive, asked |-> TRUE]

confirm_update(interactive, response) ==
    IF ~interactive
    THEN [out |-> "True", mode |-> interactive, asked |-> FALSE]
    ELSE CASE response \in {"y", "yes"} ->
                  [out |-> "True", mode |-> interactive, asked |-> TRUE]
           [] response \in {"n", "no"} ->
                  [out |-> "False", mode |-> interactive, asked |-> TRUE]
           [] response \in {"a", "all"} ->
                  [out |-> "True", mode |-> FALSE, asked |-> TRUE]
           [] response \in {"q", "quit"} ->
                  [out |-> "exit", mode |-> interactive, asked |-> TRUE]
           [] OTHER ->
                  [out |-> "again", mode |-> interactive, asked |-> TRUE]

(***************************************************************************)
(* The run: main() constructs the generator, calls process_files() and     *)
(* then print_summary().                                                   *)
(***************************************************************************)
VARIABLES
    input,              \* the audio files under the input folder, in glob order
    backend,            \* what the requests to Ollama can be answered with
    output,             \* the output folder: file name -> file, or Absent
    overwrite,          \* self.overwrite
    interactive_mode,   \* self.interactive_mode
    stats,              \* self.stats
    pc,                 \* where the run is
    i,                  \* the loop index of process_files, from 1
    song_name,          \* locals of process_files and of update_*_metadata
    existing_metadata,
    metadata,
    response,           \* the last line confirm_update read for this file
    confirmed,          \* what confirm_update returned for this file
    success,            \* what update_audio_metadata returned
    outcome,            \* which return of update_*_metadata was taken
    shown,              \* the files display_metadata_comparison printed
    prompted,           \* the files confirm_update prompted for
    sleeps,             \* how often time.sleep(rate_limit_delay) was called
    summary             \* what print_summary logged

vars ==
    <<input, backend, output, overwrite, interactive_mode, stats, pc, i,
      song_name, existing_metadata, metadata, response, confirmed, success,
      outcome, shown, prompted, sleeps, summary>>

locals ==
    <<song_name, existing_metadata, metadata, response, confirmed, success,
      outcome>>

config == <<input, backend, overwrite>>

(***************************************************************************)
(* The inputs of a run.                                                    *)
(***************************************************************************)
OldTitle == <<"O", "l", "d">>

OldArtist == <<"A", "r", "t">>

\* what an MP3 file under the input folder can be: without ID3 tag, with a
\* title, not loadable
Mp3Kinds ==
    {[fmt |-> "mp3", ok |-> TRUE, tag |-> NoTag],
     [fmt |-> "mp3", ok |-> TRUE, tag |-> [EmptyMp3Tag EXCEPT !.title = OldTitle]],
     [fmt |-> "mp3", ok |-> FALSE, tag |-> NoTag]}

\* what an Opus file under the input folder can be: without comments, with
\* an artist, not loadable
OpusKinds ==
    {[fmt |-> "opus", ok |-> TRUE, tag |-> EmptyOpusTag],
     [fmt |-> "opus", ok |-> TRUE, tag |-> [EmptyOpusTag EXCEPT !.ARTIST = OldArtist]],
     [fmt |-> "opus", ok |-> FALSE, tag |-> EmptyOpusTag]}

\* the name of the j-th file: 01_s.mp3, 02_s.opus, ...
FileName(j, fmt) ==
    <<"0", Digits[j + 1], "_", "s", ".">>
    \o (IF fmt = "mp3" THEN <<"m", "p", "3">> ELSE <<"o", "p", "u", "s">>)

\* get_audio_files lists the MP3 files before the Opus files; a file is
\* [dir, name, fmt, ok, tag], dir its folder below the input folder
KindLists ==
    UNION {{l \in [1..n -> Mp3Kinds \cup OpusKinds] :
               \A a, b \in 1..n : a < b => ~(l[a].fmt = "opus" /\ l[b].fmt = "mp3")}
           : n \in 0..MaxFiles}

FileLists ==
    {[j \in DOMAIN l |->
         [dir |-> <<>>, name |-> FileName(j, l[j].fmt), fmt |-> l[j].fmt,
          ok |-> l[j].ok, tag |-> l[j].tag]] : l \in KindLists}

\* the JSON objects the backend answers with
FullReply ==
    [title |-> JStr(<<"T">>), artists |-> JStr(<<"A">>), album |-> JStr(<<"L">>),
     year |-> JInt(2013), composer |-> JStr(<<"C">>), genre |-> JStr(<<"G">>),
     language |-> JStr(<<"H">>)]

PartialReply == [artists |-> JStr(<<"A">>), year |-> JNull]

Replies ==
    {[kind |-> k, obj |-> EmptyDict] :
        k \in {"transport", "status", "nokey", "unparseable", "exception"}}
    \cup {[kind |-> "parsed", obj |-> o] : o \in {FullReply, PartialReply}}

\* the lines the operator types, lowered and stripped
Responses == {"y", "n", "a", "q", "x"}

ZeroStats ==
    [total_files |-> 0, processed_files |-> 0, success |-> 0, errors |-> 0,
     skipped |-> 0]

\* the content of a file, without its name
Content(f) == [fmt |-> f.fmt, ok |-> f.ok, tag |-> f.tag]

Names == {input[j].name : j \in DOMAIN input}

ReadExisting(f) ==
    IF f.fmt = "mp3" THEN get_mp3_existing_metadata(f)
    ELSE get_opus_existing_metadata(f)

\* __init__: the output folder is created, the counters are zero
InitRun ==
    /\ output = [n \in Names |-> Absent]
    /\ stats = ZeroStats
    /\ pc = "start"
    /\ i = 0
    /\ song_name = <<>>
    /\ existing_metadata = Unset
    /\ metadata = Unset
    /\ response = ""
    /\ confirmed = "none"
    /\ success = "none"
    /\ outcome = "none"
    /\ shown = {}
    /\ prompted = {}
    /\ sleeps = 0
    /\ summary = Unset

Init ==
    /\ input \in FileLists
    /\ backend = Replies
    /\ overwrite \in BOOLEAN
    /\ interactive_mode \in BOOLEAN
    /\ InitRun

(***************************************************************************)
(* Runs over one file, for the field rules: the file is untagged or        *)
(* carries the tags of FullReply, and the backend answers with FullReply   *)
(* changed in one field.                                                   *)
(***************************************************************************)
FullMp3Tag ==
    [title |-> <<"T">>, artist |-> <<"A">>, album |-> <<"L">>,
     recording_date |-> <<"2", "0", "1", "3">>, composer |-> <<"C">>,
     genre |-> <<"G">>, comments |-> <<>>]

FullOpusTag ==
    [TITLE |-> <<"T">>, ARTIST |-> <<"A">>, ALBUM |-> <<"L">>,
     DATE |-> <<"2", "0", "1", "3">>, COMPOSER |-> <<"C">>, GENRE |-> <<"G">>,
     LANGUAGE |-> <<"H">>]

FieldKinds ==
    {[fmt |-> "mp3", ok |-> TRUE, tag |-> NoTag],
     [fmt |-> "mp3", ok |-> TRUE, tag |-> FullMp3Tag],
     [fmt |-> "opus", ok |-> TRUE, tag |-> EmptyOpusTag],
     [fmt |-> "opus", ok |-> TRUE, tag |-> FullOpusTag]}

FieldFileLists ==
    {<<[dir |-> <<>>, name |-> FileName(1, k.fmt), fmt |-> k.fmt, ok |-> k.ok,
        tag |-> k.tag]>> : k \in FieldKinds}

\* the values the backend gives a field: strings, numbers, lists, null
FieldValues(key) ==
    CASE key = "artists" ->
             {JStr(<<"B">>), JList(<< <<"J">>, <<"P">> >>), JList(<< <<"J">> >>),
              JList(<<>>), JNull}
      [] key = "year" ->
             {JInt(1999), JInt(0), JStr(<<"1", "9", "9", "9">>),
              JStr(<<"a", "b">>), JStr(<<>>), JNull}
      [] OTHER -> {JStr(<<"X">>), JStr(<<>>), JNull}

FieldReplies ==
    {[kind |-> "parsed", obj |-> FullReply]}
    \cup UNION {{[kind |-> "parsed", obj |-> [FullReply EXCEPT ![key] = v]] :
                    v \in FieldValues(key)} : key \in DOMAIN FullReply}

InitFields ==
    /\ input \in FieldFileLists
    /\ backend = FieldReplies
    /\ overwrite \in BOOLEAN
    /\ interactive_mode \in BOOLEAN
    /\ InitRun

(***************************************************************************)
(* Runs over one MP3 file whose name is any string of at most MaxStemLen   *)
(* characters before the extension, for clean_filename.                    *)
(***************************************************************************)
StemChars == {"0", " ", "_", "[", "]", "a"}

Stems == UNION {[1..n -> StemChars] : n \in 0..MaxStemLen}

CleanFileLists ==
    {<<[dir |-> <<>>, name |-> stem \o <<".", "m", "p", "3">>, fmt |-> "mp3",
        ok |-> TRUE, tag |-> NoTag]>> : stem \in Stems}

InitClean ==
    /\ input \in CleanFileLists
    /\ backend = {[kind |-> "parsed", obj |-> FullReply]}
    /\ overwrite = TRUE
    /\ interactive_mode = FALSE
    /\ InitRun

(***************************************************************************)
(* Runs over two files in different folders below the input folder, whose  *)
(* names can be the same: glob("**/*.mp3") descends into the folders.      *)
(***************************************************************************)
SubDir == <<"s", "u", "b">>

DupPairs ==
    {<<[dir |-> <<>>, name |-> FileName(1, k1.fmt), fmt |-> k1.fmt,
        ok |-> k1.ok, tag |-> k1.tag],
       [dir |-> SubDir, name |-> FileName(j, k2.fmt), fmt |-> k2.fmt,
        ok |-> k2.ok, tag |-> k2.tag]>> :
        k1 \in FieldKinds, k2 \in FieldKinds, j \in 1..2}

\* the MP3 files come before the Opus files
DupFileLists == {l \in DupPairs : ~(l[1].fmt = "opus" /\ l[2].fmt = "mp3")}

InitDup ==
    /\ input \in DupFileLists
    /\ backend = {[kind |-> "parsed", obj |-> FullReply],
                  [kind |-> "transport", obj |-> EmptyDict]}
    /\ overwrite \in BOOLEAN
    /\ interactive_mode \in BOOLEAN
    /\ InitRun

(***************************************************************************)
(* The steps of the run.                                                   *)
(***************************************************************************)
\* process_files, up to the loop: get_audio_files sets total_files
GetAudioFiles ==
    /\ pc = "start"
    /\ stats' = [stats EXCEPT !.total_files = Len(input)]
    /\ i' = 1
    /\ pc' = IF Len(input) = 0 THEN "returned" ELSE "loop"
    /\ UNCHANGED <<config, output, interactive_mode, locals, shown, prompted,
                   sleeps, summary>>

\* the loop body up to the inference call: the song name and the existing
\* metadata of the source file
BeginFile ==
    /\ pc = "loop"
    /\ song_name' = clean_filename(input[i].name)
    /\ existing_metadata' = ReadExisting(input[i])
    /\ metadata' = Unset
    /\ response' = ""
    /\ confirmed' = "none"
    /\ success' = "none"
    /\ outcome' = "none"
    /\ pc' = "infer"
    /\ UNCHANGED <<config, output, interactive_mode, stats, i, shown, prompted,
                   sleeps, summary>>

\* metadata = self.get_metadata_from_ollama(song_name, existing_metadata)
Infer ==
    /\ pc = "infer"
    /\ \E reply \in backend :
          metadata' = get_metadata_from_ollama(song_name, reply)
    /\ pc' = "update"
    /\ UNCHANGED <<config, output, interactive_mode, stats, i, song_name,
                   existing_metadata, response, confirmed, success, outcome,
                   shown, prompted, sleeps, summary>>

\* "(empty)"
EmptyMark == <<"(", "e", "m", "p", "t", "y", ")">>

\* the keys of field_mapping with the key of the existing metadata each is
\* compared with
DisplayFields ==
    [title |-> "title", artists |-> "artist", album |-> "album",
     year |-> "year", composer |-> "composer", genre |-> "genre",
     language |-> "language"]

\* existing.get(field, "") or "(empty)"
OldVal(existing, key) ==
    LET field == DisplayFields[key]
        v == IF field \in DOMAIN existing THEN existing[field] ELSE <<>>
    IN  IF v # <<>> THEN JStr(v) ELSE JStr(EmptyMark)

\* new_metadata.get(key, "") or "(empty)", with str() around the year
NewVal(new_metadata, key) ==
    LET got == IF key \in DOMAIN new_metadata THEN new_metadata[key] ELSE JStr(<<>>)
        v == IF key = "year" THEN JStr(PyStr(got)) ELSE got
    IN  IF Truthy(v) THEN v ELSE JStr(EmptyMark)

\* the fields display_metadata_comparison prints with OLD and NEW
ChangedFields(existing, new_metadata) ==
    {key \in DOMAIN DisplayFields :
        OldVal(existing, key) # NewVal(new_metadata, key)}

\* a comparison printed only in interactive mode
display_metadata_comparison_if_interactive(printed, interactive, idx) ==
    IF interactive THEN printed \cup {idx} ELSE printed

\* self.display_metadata_comparison(...), called whatever the mode: the
\* files whose comparison has been printed
display_metadata_comparison(printed, interactive, idx) == printed \cup {idx}

\* update_audio_metadata dispatches on the suffix; update_*_metadata reads
\* the existing metadata of the source file and prints the comparison
ShowComparison ==
    /\ pc = "update"
    /\ existing_metadata' = ReadExisting(input[i])
    /\ shown' = display_metadata_comparison(shown, interactive_mode, i)
    /\ pc' = "confirm"
    /\ UNCHANGED <<config, output, interactive_mode, stats, i, song_name,
                   metadata, response, confirmed, success, outcome, prompted,
                   sleeps, summary>>

\* a decline that does not return: the copy follows
AfterConfirm_decline_falls_through(out) ==
    CASE out \in {"True", "False"} -> "copy"
      [] out = "exit" -> "exited"
      [] OTHER -> "confirm"

\* an exit that the handler of update_*_metadata catches as an exception
AfterConfirm_exit_caught(out) ==
    CASE out = "True" -> "copy"
      [] out \in {"False", "exit"} -> "account"
      [] OTHER -> "confirm"

\* where the run goes after one pass of confirm_update: True goes on to the
\* copy, False returns to process_files, exit(0) raises SystemExit, which no
\* "except Exception" catches, and anything else asks again
AfterConfirm(out) ==
    CASE out = "True" -> "copy"
      [] out = "False" -> "account"
      [] out = "exit" -> "exited"
      [] OTHER -> "confirm"

\* if not self.confirm_update(): skipped += 1; return False
Confirm ==
    /\ pc = "confirm"
    /\ \E r \in Responses :
          LET c == confirm_update(interactive_mode, r)
          IN  /\ interactive_mode' = c.mode
              /\ prompted' = IF c.asked THEN prompted \cup {i} ELSE prompted
              /\ response' = IF c.asked THEN r ELSE response
              /\ confirmed' = IF c.out \in {"True", "False"} THEN c.out ELSE confirmed
              /\ pc' = AfterConfirm(c.out)
              /\ IF c.out = "False"
                 THEN /\ stats' = [stats EXCEPT !.skipped = @ + 1]
                      /\ success' = "False"
                      /\ outcome' = "declined"
                 ELSE UNCHANGED <<stats, success, outcome>>
    /\ UNCHANGED <<config, output, i, song_name, existing_metadata, metadata,
                   shown, sleeps, summary>>

\* shutil.copy2(source_path, output_path); an exception of the copy is
\* caught by update_*_metadata, which returns False
Copy ==
    /\ pc = "copy"
    /\ \E io \in {"ok", "raise"} :
          IF io = "ok"
          THEN /\ output' = [output EXCEPT ![input[i].name] = Content(input[i])]
               /\ pc' = "write"
               /\ UNCHANGED <<success, outcome>>
          ELSE /\ success' = "False"
               /\ outcome' = "exception"
               /\ pc' = "account"
               /\ UNCHANGED output
    /\ UNCHANGED <<config, interactive_mode, stats, i, song_name,
                   existing_metadata, metadata, response, confirmed, shown,
                   prompted, sleeps, summary>>

\* a write that loads and saves the source file instead of the copy
WriteTags_on_source ==
    /\ pc = "write"
    /\ LET f == input[i]
           base == IF f.tag = NoTag THEN EmptyMp3Tag ELSE f.tag
           new == IF f.fmt = "mp3" THEN ApplyMp3(base, metadata, FALSE)
                  ELSE ApplyOpus(base, metadata)
       IN  input' = [input EXCEPT ![i].tag = new]
    /\ success' = "True"
    /\ outcome' = "saved"
    /\ pc' = "account"
    /\ UNCHANGED <<backend, overwrite, output, stats, interactive_mode, i,
                   song_name, existing_metadata, metadata, response, confirmed,
                   shown, prompted, sleeps, summary>>

\* a write whose overwrite check removes the copy it skips
WriteTags_skip_removes_copy ==
    /\ pc = "write"
    /\ \E save \in {"ok", "raise"}, genre_rejected \in BOOLEAN :
          LET name == input[i].name
              f == output[name]
              base == IF f.tag = NoTag THEN EmptyMp3Tag ELSE f.tag
              new == IF f.fmt = "mp3" THEN ApplyMp3(base, metadata, genre_rejected)
                     ELSE ApplyOpus(base, metadata)
          IN  IF ~f.ok
              THEN /\ success' = "False"
                   /\ outcome' = "load_failed"
                   /\ UNCHANGED <<output, stats>>
              ELSE IF ~overwrite /\ HasTitleOrArtist(f)
              THEN /\ stats' = [stats EXCEPT !.skipped = @ + 1]
                   /\ success' = "False"
                   /\ outcome' = "overwrite_skip"
                   /\ output' = [output EXCEPT ![name] = Absent]
              ELSE IF save = "raise"
              THEN /\ success' = "False"
                   /\ outcome' = "exception"
                   /\ UNCHANGED <<output, stats>>
              ELSE /\ output' = [output EXCEPT ![name] = [f EXCEPT !.tag = new]]
                   /\ success' = "True"
                   /\ outcome' = "saved"
                   /\ UNCHANGED stats
    /\ pc' = "account"
    /\ UNCHANGED <<config, interactive_mode, i, song_name, existing_metadata,
                   metadata, response, confirmed, shown, prompted, sleeps,
                   summary>>

\* the rest of update_*_metadata: load the copy, the overwrite check, the
\* field updates and the save.  A save that raises leaves the copy as it was.
WriteTags ==
    /\ pc = "write"
    /\ \E save \in {"ok", "raise"}, genre_rejected \in BOOLEAN :
          LET name == input[i].name
              f == output[name]
              base == IF f.tag = NoTag THEN EmptyMp3Tag ELSE f.tag
              new == IF f.fmt = "mp3" THEN ApplyMp3(base, metadata, genre_rejected)
                     ELSE ApplyOpus(base, metadata)
          IN  IF ~f.ok
              THEN /\ success' = "False"
                   /\ outcome' = "load_failed"
                   /\ UNCHANGED <<output, stats>>
              ELSE IF ~overwrite /\ HasTitleOrArtist(f)
              THEN /\ stats' = [stats EXCEPT !.skipped = @ + 1]
                   /\ success' = "False"
                   /\ outcome' = "overwrite_skip"
                   /\ UNCHANGED output
              ELSE IF save = "raise"
              THEN /\ success' = "False"
                   /\ outcome' = "exception"
                   /\ UNCHANGED <<output, stats>>
              ELSE /\ output' = [output EXCEPT ![name] = [f EXCEPT !.tag = new]]
                   /\ success' = "True"
                   /\ outcome' = "saved"
                   /\ UNCHANGED stats
    /\ pc' = "account"
    /\ UNCHANGED <<config, interactive_mode, i, song_name, existing_metadata,
                   metadata, response, confirmed, shown, prompted, sleeps,
                   summary>>

\* the counters after update_audio_metadata returned
CountResult(st, ok, md) ==
    LET st1 == IF ok = "True" THEN [st EXCEPT !.success = @ + 1]
               ELSE IF "error" \in DOMAIN md THEN [st EXCEPT !.errors = @ + 1]
               ELSE st
    IN  [st1 EXCEPT !.processed_files = @ + 1]

\* the end of the loop body: the counters, the pacing delay, the next file
Account ==
    /\ pc = "account"
    /\ stats' = CountResult(stats, success, metadata)
    /\ sleeps' = IF i < Len(input) THEN sleeps + 1 ELSE sleeps
    /\ i' = i + 1
    /\ pc' = IF i < Len(input) THEN "loop" ELSE "returned"
    /\ UNCHANGED <<config, output, interactive_mode, locals, shown, prompted,
                   summary>>

\* a handler that leaves the loop
AfterException_leaves_loop(idx, n) == "returned"

\* except Exception ... continue: the loop goes on with the next file
AfterException(idx, n) == IF idx < n THEN "loop" ELSE "returned"

\* an exception that escapes the loop body: get_metadata_from_ollama builds
\* its prompt (lines 133-160) before it enters its try, so an exception
\* there reaches the handler of process_files, which counts an error and
\* continues
FileException ==
    /\ pc = "infer"
    /\ stats' = [stats EXCEPT !.errors = @ + 1]
    /\ i' = i + 1
    /\ pc' = AfterException(i, Len(input))
    /\ UNCHANGED <<config, output, interactive_mode, locals, shown, prompted,
                   sleeps, summary>>

\* generator.print_summary()
PrintSummary ==
    /\ pc = "returned"
    /\ summary' = stats
    /\ pc' = "done"
    /\ UNCHANGED <<config, output, interactive_mode, stats, i, locals, shown,
                   prompted, sleeps>>

Next ==
    \/ GetAudioFiles
    \/ BeginFile
    \/ Infer
    \/ ShowComparison
    \/ Confirm
    \/ Copy
    \/ WriteTags
    \/ Account
    \/ FileException
    \/ PrintSummary

Spec == Init /\ [][Next]_vars

\* the runs over one file for the field rules
SpecFields == InitFields /\ [][Next]_vars

\* the runs over one file of any name
SpecClean == InitClean /\ [][Next]_vars

\* the runs over two files whose names can be the same
SpecDup == InitDup /\ [][Next]_vars

\* the places the run can be at
PcValues ==
    {"start", "loop", "infer", "update", "confirm", "copy", "write",
     "account", "returned", "done", "exited"}

\* the run moves on to its next place.  Every place but "done" and "exited"
\* has a step of Next that leaves it, and every step of Next but a prompt
\* asked again leaves its place.
Advance == pc \notin {"done", "exited"} /\ pc' \in PcValues \ {pc}

\* the runs that move on while they can: the program is one thread, the
\* inference call has a timeout of 30 s, the copy, the tag library and the
\* sleep return, and the operator does not answer a prompt with
\* unrecognized responses for ever
SpecLive == Init /\ [][Next]_vars /\ WF_pc(Advance)

(***************************************************************************)
(* Properties.                                                             *)
(***************************************************************************)
\* the run is between two files or past the last one
BetweenFiles == pc \in {"loop", "returned", "done"}

\* the fallback record of a call that could not reach the backend
TransportFallback ==
    [error |-> JStr(ExceptionText("transport")), title |-> JStr(song_name)]

\* C1: for every file handled exactly one of success, skipped, errors is
\* incremented, so between two files and after the run their sum is the
\* number of files handled.
C1_ExactlyOneCounter ==
    BetweenFiles =>
        stats.success + stats.skipped + stats.errors = i - 1

\* C2: the output folder changes only for the file at hand, only after its
\* existing metadata has been read and confirm_update has returned True for
\* it; no output changes for a file whose confirmation returned False.
C2_WriteAfterReadAndConfirm ==
    [][output' # output =>
          /\ pc \in {"copy", "write"}
          /\ existing_metadata # Unset
          /\ i \in shown
          /\ confirmed = "True"
          /\ \A n \in Names \ {input[i].name} : output'[n] = output[n]]_vars

\* C2 witness: the operator answered y and the tags of the copy were saved.
C2_Witness ==
    /\ pc = "account"
    /\ response = "y"
    /\ confirmed = "True"
    /\ outcome = "saved"
    /\ output[input[i].name] # Absent
    /\ output[input[i].name] # Content(input[i])

\* C3: a run over one file whose inference call could not reach the backend
\* ends with total_files = 1, processed_files = 1, errors = 1, success = 0
\* and an output file that is absent or an unmodified copy of the source.
C3_UnreachableBackend ==
    (/\ pc = "done"
     /\ Len(input) = 1
     /\ metadata = TransportFallback
     /\ success # "none") =>
        /\ summary.total_files = 1
        /\ summary.processed_files = 1
        /\ summary.errors = 1
        /\ summary.success = 0
        /\ output[input[1].name] \in {Absent, Content(input[1])}

\* C4: whatever the backend does, the value get_metadata_from_ollama returns
\* is a mapping with a 'title' key.
C4_TitleKey ==
    metadata # Unset => "title" \in DOMAIN metadata

\* C5: when the write fails after approval (the copy cannot be loaded, an
\* exception during copy, load, apply or save), update_*_metadata returns
\* False and process_files increments errors for the file.
C5_WriteFailureCounted ==
    [][(pc = "account" /\ outcome \in {"load_failed", "exception"}) =>
          /\ success = "False"
          /\ stats'.errors = stats.errors + 1]_vars

\* C6: with overwrite disabled and a title or an artist in the destination,
\* the write changes no tag, returns False, and the file is counted as
\* skipped: skipped + 1, success and errors unchanged for the file.
C6_OverwriteSkip ==
    [][/\ (/\ pc = "write"
           /\ ~overwrite
           /\ output[input[i].name].ok
           /\ HasTitleOrArtist(output[input[i].name])) =>
              /\ output' = output
              /\ success' = "False"
              /\ stats' = [stats EXCEPT !.skipped = @ + 1]
       /\ (pc = "account" /\ outcome = "overwrite_skip") =>
              /\ stats'.skipped = stats.skipped
              /\ stats'.success = stats.success
              /\ stats'.errors = stats.errors]_vars

\* C7: when the operator answers a, the update of that file proceeds and
\* interactive_mode becomes False; interactive_mode never becomes True
\* again; and for every later file confirm_update returns True without a
\* prompt.
C7_AffirmAll ==
    [][/\ (pc = "confirm" /\ response' = "a") =>
              /\ pc' = "copy"
              /\ confirmed' = "True"
              /\ ~interactive_mode'
       /\ ~interactive_mode => ~interactive_mode'
       /\ (pc = "confirm" /\ ~interactive_mode /\ prompted # {}) =>
              /\ pc' = "copy"
              /\ confirmed' = "True"
              /\ prompted' = prompted
              /\ response' = ""]_vars

\* C7 witness: a file was prompted for, the session is non-interactive and a
\* later file has been confirmed without a prompt.
C7_Witness ==
    /\ pc = "copy"
    /\ i > 1
    /\ prompted # {}
    /\ i \notin prompted
    /\ ~interactive_mode
    /\ confirmed = "True"

\* C8: when the operator answers q the run ends at once: the process has
\* exited, no handler has turned the exit into a return, no output, counter
\* or summary changes with the answer or after it, and the file at hand has
\* no output file.
C8_Quit ==
    /\ [](response = "q" <=> pc = "exited")
    /\ [](pc = "exited" =>
             /\ summary = Unset
             /\ success = "none"
             /\ output[input[i].name] = Absent)
    /\ [][/\ response' = "q" =>
                 UNCHANGED <<output, stats, summary, sleeps, metadata, shown, i>>
          /\ pc = "exited" => UNCHANGED vars]_vars

\* C8 witness: the operator quit at the second file and the output file
\* written for the first file is there.
C8_Witness ==
    /\ pc = "exited"
    /\ i = 2
    /\ stats.success = 1
    /\ output[input[1].name] # Absent
    /\ output[input[1].name] # Content(input[1])

\* C9: a file the operator declines is counted as skipped and not as an
\* error, and the decline leaves the session interactive.
C9_DeclineIsSkipOnly ==
    [][/\ (pc = "confirm" /\ response' = "n") =>
              /\ stats' = [stats EXCEPT !.skipped = @ + 1]
              /\ interactive_mode'
              /\ pc' = "account"
       /\ (pc = "account" /\ outcome = "declined") =>
              /\ stats'.errors = stats.errors
              /\ stats'.skipped = stats.skipped
              /\ stats'.success = stats.success]_vars

\* C10, as claimed: in non-interactive mode no comparison is printed for
\* the file.
C10_NoDiffWhenNonInteractive ==
    (pc = "confirm" /\ ~interactive_mode) => i \notin shown

\* C10, amended: in non-interactive mode confirm_update returns True for
\* every file without a prompt; the comparison is printed for every file
\* before the decision, whatever the mode.
C10_ProceedWithoutPrompt ==
    /\ [](pc \in {"confirm", "copy", "write", "account", "exited"} => i \in shown)
    /\ [][(pc = "confirm" /\ ~interactive_mode) =>
             /\ pc' = "copy"
             /\ confirmed' = "True"
             /\ prompted' = prompted
             /\ shown' = shown]_vars

\* C10 witness: a file of a non-interactive session was confirmed without a
\* prompt after its comparison had been printed.
C10_Witness ==
    /\ pc = "copy"
    /\ ~interactive_mode
    /\ i \in shown
    /\ i \notin prompted
    /\ prompted = {}
    /\ confirmed = "True"

\* the file at the output path of the file at hand
OutputFile == output[input[i].name]

\* a write of the file at hand has been saved
Saved == pc = "account" /\ outcome = "saved"

\* ", ".join(names)
RECURSIVE JoinNames(_)
JoinNames(names) ==
    IF names = <<>> THEN <<>>
    ELSE IF Len(names) = 1 THEN Head(names)
    ELSE Head(names) \o <<",", " ">> \o JoinNames(Tail(names))

\* C11: after a write, the artist of the output file is the names of the
\* inferred list joined with ", ", or the string form of an inferred scalar.
C11_ArtistsJoined ==
    (Saved /\ Truthy(Get(metadata, "artists"))) =>
        ReadExisting(OutputFile).artist =
            IF metadata.artists.k = "list" THEN JoinNames(metadata.artists.l)
            ELSE PyStr(metadata.artists)

\* C12: after a write, reading the existing metadata of the output file
\* gives, for every field whose inferred value was written (non-empty, and
\* all digits for the year), that value under the field.
C12_RoundTrip ==
    Saved =>
        \A key \in DOMAIN DisplayFields :
            (/\ Truthy(Get(metadata, key))
             /\ key = "year" => IsDigit(PyStr(metadata[key]))) =>
                /\ DisplayFields[key] \in DOMAIN ReadExisting(OutputFile)
                /\ ReadExisting(OutputFile)[DisplayFields[key]] = PyStr(metadata[key])

\* "(empty)" for a value that is absent, null or empty, and the string form
\* of any other value
Normalized(d, key) ==
    IF key \in DOMAIN d /\ d[key] # JNull /\ PyStr(d[key]) # <<>>
    THEN PyStr(d[key])
    ELSE EmptyMark

\* the existing metadata as a dict of JSON strings
AsJson(existing) == [field \in DOMAIN existing \ {"comments"} |-> JStr(existing[field])]

\* C13: the comparison marks a field changed exactly when the existing and
\* the inferred value differ after absent, null and empty values are
\* normalized to "(empty)"; an inferred null year against an empty existing
\* year is not a change.
C13_ChangedIffDiffer ==
    pc = "confirm" =>
        \A key \in DOMAIN DisplayFields :
            key \in ChangedFields(existing_metadata, metadata) <=>
                Normalized(AsJson(existing_metadata), DisplayFields[key])
                    # Normalized(metadata, key)

\* the year of a file, as the existing metadata give it
YearOf(f) == IF "year" \in DOMAIN ReadExisting(f) THEN ReadExisting(f).year ELSE <<>>

\* C16: after a write with a present (non-null) inferred year, the year of
\* the output file is the string form of that year if it is all digits, and
\* the year the file had otherwise.
C16_YearIffDigits ==
    (Saved /\ Get(metadata, "year") # JNull) =>
        YearOf(OutputFile) =
            IF IsDigit(PyStr(metadata.year)) THEN PyStr(metadata.year)
            ELSE YearOf(input[i])

\* C17: clean_filename gives a name that clean_filename leaves as it is.
C17_Idempotent ==
    pc = "infer" => clean_filename(song_name) = song_name

\* C14: no file is copied onto an output file: the output path of the file
\* at hand is free when the file is copied.
C14_OwnOutputPath ==
    [][(pc = "copy" /\ output' # output) => OutputFile = Absent]_vars

\* C15: no step changes a file under the input folder; the output folder
\* changes only by the copy of the source file to its output path and by
\* the save of the tags of that copy.
C15_SourceUntouched ==
    [][/\ input' = input
       /\ output' # output =>
             /\ pc \in {"copy", "write"}
             /\ pc = "copy" => OutputFile' = Content(input[i])
             /\ pc = "write" =>
                   /\ OutputFile = Content(input[i])
                   /\ OutputFile'.fmt = input[i].fmt]_vars

\* C15 witness: the tags of the copy were saved in a non-interactive
\* session, and the copy differs from the source file.
C15_Witness ==
    /\ Saved
    /\ prompted = {}
    /\ OutputFile.tag # input[i].tag
    /\ input[i].tag # NoTag

\* C18: an exception that escapes the processing of a file is counted as one
\* error and the loop goes on with the next file; the loop ends only after
\* the last file (or by quit).
C18_FileBoundary ==
    /\ [](pc \in {"returned", "done"} => i = Len(input) + 1)
    /\ [][(pc = "infer" /\ pc' # "update") =>
             /\ stats' = [stats EXCEPT !.errors = @ + 1]
             /\ i' = i + 1
             /\ pc' = IF i < Len(input) THEN "loop" ELSE "returned"
             /\ output' = output]_vars

\* C18 witness: the first file raised and the second file has been
\* processed to its end.
C18_Witness ==
    /\ pc = "account"
    /\ i = 2
    /\ stats.errors = 1
    /\ stats.processed_files = 0
    /\ success = "True"

\* C19: when the run completes, processed_files equals total_files; at
\* every point processed_files <= total_files.
C19_ProcessedAll ==
    /\ pc \in {"returned", "done"} => stats.processed_files = stats.total_files
    /\ pc # "start" => stats.processed_files <= stats.total_files

\* C20: the delay has been slept once after every file that is not the
\* last, whatever the outcome of the file, and not after the last file.
C20_Pacing ==
    /\ pc = "loop" => sleeps = i - 1
    /\ (pc \in {"returned", "done"} /\ Len(input) > 0) => sleeps = Len(input) - 1

\* C21: when every inference call returns and the operator eventually gives
\* a recognized response at every prompt, the run eventually finishes or is
\* ended by quit; when it finishes every file has been handled, the loop
\* index only moves from one file to the next, when the file at hand is
\* finished, and a file begins only between two files; an unrecognized
\* response leaves the run at the prompt of the same file and changes no
\* counter, flag or file.
C21_Termination ==
    /\ <>(pc \in {"done", "exited"})
    /\ [](pc = "done" => i = Len(input) + 1)
    /\ [][/\ i' # i =>
                /\ i' = i + 1
                /\ pc \in {"start", "account", "infer"}
                /\ pc' \in {"loop", "returned"}
          /\ (pc' = "infer" /\ pc # "infer") =>
                /\ pc = "loop"
                /\ i' = i
                /\ i \in 1..Len(input)
          /\ (pc = "confirm" /\ interactive_mode
                /\ response' \notin Recognized) =>
                /\ pc' = "confirm"
                /\ UNCHANGED <<i, stats, interactive_mode, overwrite, input,
                               output>>]_vars

\* C21 witness: a run over two files has finished, the operator having
\* been prompted for both.
C21_Witness ==
    /\ pc = "done"
    /\ Len(input) = 2
    /\ i = 3
    /\ prompted = {1, 2}
    /\ summary = stats

\* C22: a file skipped by the overwrite check has, at its output path, a
\* copy whose tags are the tags of the source; no step of a file up to the
\* operator's decline, and no step after it until the next file begins,
\* changes the output folder.
C22_SkipLeavesCopy ==
    /\ []((pc = "account" /\ outcome = "overwrite_skip") =>
            /\ ~overwrite
            /\ HasTitleOrArtist(input[i])
            /\ OutputFile # Absent
            /\ OutputFile.tag = input[i].tag
            /\ OutputFile = Content(input[i]))
    /\ [][(pc \in {"loop", "infer", "update", "confirm"}
             \/ outcome = "declined") => output' = output]_vars

\* C22 witness: a tagged file has been skipped by the overwrite check after
\* the operator approved it, and its copy is in the output folder.
C22_Witness ==
    /\ pc = "account"
    /\ outcome = "overwrite_skip"
    /\ confirmed = "True"
    /\ input[i].tag # NoTag
    /\ OutputFile = Content(input[i])

====
